---- MODULE Spec2Model ----
(***************************************************************************)
(* StereoVision, stereovision/ui_utils.py: the interactive block matcher   *)
(* tuner (BMTuner), the batch calibration driver (calibrate_folder) and    *)
(* the stereo image discovery (find_files).                                *)
(*                                                                         *)
(* A disparity map is a tuple of integers, one per pixel; a validity mask  *)
(* is a tuple of booleans.  A mean map is kept exactly, as the pixel-wise  *)
(* sum of the averaged maps (num) and their number (den).  None is <<>>.   *)
(***************************************************************************)
EXTENDS Integers, Sequences, FiniteSets, TLC

VARIABLES
    block_matcher,          \* parameter name -> value held by the block matcher
    bm_settings,            \* self.bm_settings: parameter name -> list of values
    pair,                   \* self.pair
    time_smoothing_window,  \* self.time_smoothing_window
    last_disparities,       \* self.last_disparities: slot 0..W-1 -> (d, v)
    next_disparity_index,   \* self.next_disparity_index
    disparity,              \* self.disparity
    validity,               \* self.validity
    colored_smoothed,       \* pixel -> the smoothed image shows its colour
    waiting,                \* the control thread is inside cv2.waitKey()
    report,                 \* what the last call returned, if it was report_settings
    last_op,                \* the handler that ran last
    pushed,                 \* every (d, v) stored in the window so far, in
                            \* order, with the pair it was computed on
    tune_calls,             \* number of tune_pair calls so far
    input_files,            \* args.input_files
    given_files,            \* args.input_files as calibrate_folder received it
    cal_pc,                 \* where calibrate_folder stands
    progress,               \* the value last given to progress.update
    attempted,              \* the add_corners calls made: left, right, found
    error_reports,          \* the pairs named in "Error with ..." lines
    corners,                \* the pairs whose corners the calibrator holds
    calibrate_calls,        \* per calibrate_cameras call, the pairs it had
    check_results,          \* per check_calibration call, what it returned
    errors,                 \* the locals avg_error, ocv_error
    exported,               \* the arguments of each calibration.export call
    raised,                 \* the exception that left calibrate_folder
    folder,                 \* the folder find_files is asked about
    listing,                \* os.listdir(folder), a set of names
    found_files,            \* what find_files returned
    find_pc                 \* where find_files stands

tunerVars == <<block_matcher, bm_settings, pair, time_smoothing_window,
               last_disparities, next_disparity_index, disparity, validity,
               colored_smoothed, waiting, report, last_op, pushed, tune_calls>>

calibVars == <<input_files, given_files, cal_pc, progress, attempted,
               error_reports, corners, calibrate_calls, check_results, errors,
               exported, raised>>

findVars == <<folder, listing, found_files, find_pc>>

vars == <<tunerVars, calibVars, findVars>>

----------------------------------------------------------------------------
(* Bounds of the model *)

\* longest settings history a session is followed to
MaxHist == 3
\* number of disparity updates a session is followed to
MaxPush == 3
\* longest list of input files given to calibrate_folder
MaxFiles == 8

----------------------------------------------------------------------------
(* Helpers on sequences *)

None == <<>>

Range(s) == {s[i] : i \in DOMAIN s}

RECURSIVE SumSeq(_)
SumSeq(s) == IF s = <<>> THEN 0 ELSE Head(s) + SumSeq(Tail(s))

\* list.count(value)
Count(s, value) == Cardinality({i \in DOMAIN s : s[i] = value})

\* all orders in which the elements of a finite set can be listed
Orders(S) ==
    {f \in [1..Cardinality(S) -> S] : \A i, j \in DOMAIN f : f[i] = f[j] => i = j}

----------------------------------------------------------------------------
(* The block matcher the tuner drives (stereovision.blockmatchers), as far  *)
(* as the tuner uses it                                                     *)

\* block_matcher.parameter_names()
parameter_names == <<"minDisparity", "numDisparities">>

ParamSet == Range(parameter_names)

\* the parameters found in block_matcher.parameter_constraints
parameter_constraints == {"numDisparities"}

\* constraint.actual_value(trackbar_value)
actual_value(trackbar_value) == 16 * (trackbar_value + 1)

\* constraint.trackbar_max() of a parameter with a constraint, and
\* block_matcher.parameter_maxima[parameter] of one without
TrackbarMax(parameter) == IF parameter \in parameter_constraints THEN 2 ELSE 1

\* the parameter values of a freshly built block matcher
DefaultSettings == [p \in ParamSet |-> IF p = "minDisparity" THEN 0 ELSE 16]

\* block_matcher.__setattr__(parameter, new_value); accepted is FALSE when
\* the write raises BadBlockMatcherArgumentError
SetAttr(bm, parameter, new_value, accepted) ==
    IF accepted THEN [bm EXCEPT ![parameter] = new_value] ELSE bm

\* pixels of an image
Pixels == {1, 2}

\* maps block_matcher.get_disparity can return for a changing scene
SceneMaps == {<<0, 12>>, <<12, 12>>, <<30, 12>>, <<32, -1>>}

\* the map of a still scene
StillMaps == {<<1, 12>>}

----------------------------------------------------------------------------
(* BMTuner: temporal smoothing of the disparity map *)

\* self.accepted_deviation, set by the constructor
accepted_deviation == 10

\* an unpopulated slot of the window, (None, None)
EmptySlot == [d |-> None, v |-> None]

\* self.disparity before the first update
NoDisparity == [num |-> None, den |-> 0]

\* validity_bool = disparity > minDisparity - 1 + eps, on whole-numbered maps
RawValidity(bm, d) == [px \in Pixels |-> d[px] > bm["minDisparity"] - 1]

\* the window as the constructor builds it: [(None, None)] * W
EmptyWindow(W) == [i \in 0..(W - 1) |-> EmptySlot]

\* self.last_disparities[self.next_disparity_index] = (disparity, validity_bool)
StoreObservation(window, index, d, v) ==
    [window EXCEPT ![index] = [d |-> d, v |-> v]]

\* a cursor that is never advanced: every observation lands in the same slot
AdvanceIndexStuck(index, W) == index

\* (self.next_disparity_index + 1) % self.time_smoothing_window
AdvanceIndex(index, W) == (index + 1) % W

\* a window whose unpopulated slots are read as all-zero, all-valid maps
RECURSIVE HeldPadded(_, _)
HeldPadded(window, i) ==
    IF i \notin DOMAIN window THEN <<>>
    ELSE <<IF window[i].d # None THEN window[i]
           ELSE [d |-> [px \in Pixels |-> 0], v |-> [px \in Pixels |-> TRUE]]>>
         \o HeldPadded(window, i + 1)

\* [(d, v) for d, v in self.last_disparities if d is not None], from slot i on
RECURSIVE Held(_, _)
Held(window, i) ==
    IF i \notin DOMAIN window THEN <<>>
    ELSE (IF window[i].d # None THEN <<window[i]>> ELSE <<>>)
         \o Held(window, i + 1)

\* numpy.std(values) <= limit: a deviation of exactly limit passes
StdAtMost(values, limit) ==
    LET n  == Len(values)
        s1 == SumSeq(values)
        s2 == SumSeq([k \in 1..n |-> values[k] * values[k]])
    IN  n * s2 - s1 * s1 <= limit * limit * n * n

\* numpy.std(values) < limit, for limit > 0: the population variance
\* (n * sum(x^2) - sum(x)^2) / n^2 is below limit^2
StdBelow(values, limit) ==
    LET n  == Len(values)
        s1 == SumSeq(values)
        s2 == SumSeq([k \in 1..n |-> values[k] * values[k]])
    IN  n * s2 - s1 * s1 < limit * limit * n * n

\* the smoothed result with the deviation test left out
SmoothedNoDeviation(window) ==
    LET held == Held(window, 0)
        n    == Len(held)
    IN  [disparity |-> [num |-> [px \in Pixels |-> SumSeq([k \in 1..n |-> held[k].d[px]])],
                        den |-> n],
         validity  |-> [px \in Pixels |-> \A k \in 1..n : held[k].v[px]]]

\* _get_smoothed_disparity: (mean, validity) over the populated slots
GetSmoothedDisparity(window) ==
    LET held == Held(window, 0)
        n    == Len(held)
        validity_all == [px \in Pixels |-> \A k \in 1..n : held[k].v[px]]
        deviation_validity ==
            [px \in Pixels |-> StdBelow([k \in 1..n |-> held[k].d[px]], accepted_deviation)]
    IN  [disparity |-> [num |-> [px \in Pixels |-> SumSeq([k \in 1..n |-> held[k].d[px]])],
                        den |-> n],
         validity  |-> [px \in Pixels |-> validity_all[px] /\ deviation_validity[px]]]

\* the update with the else branch left out: without smoothing the result is
\* not refreshed
UpdateResultNoElse(W, window, d, v) ==
    IF W > 1 THEN GetSmoothedDisparity(window)
    ELSE [disparity |-> disparity, validity |-> validity]

\* what _update_disparity_map_no_wait stores in self.disparity and
\* self.validity, window being the window after the new observation is stored
UpdateResult(W, window, d, v) ==
    IF W > 1 THEN GetSmoothedDisparity(window)
    ELSE [disparity |-> [num |-> d, den |-> 1], validity |-> v]

\* the pixels of colored_smoothed left in colour by
\* bitwise_and(colored_smoothed, validity_3int), validity_3int being built
\* from validity_bool; the rest is background
MaskedColoredSmoothed(validity_bool, smoothed_validity) == validity_bool

\* _update_disparity_map_no_wait, d being what get_disparity(self.pair)
\* returns under the parameter values bm
UpdateDisparityMapNoWait(bm, d) ==
    LET v      == RawValidity(bm, d)
        window == StoreObservation(last_disparities, next_disparity_index, d, v)
        result == UpdateResult(time_smoothing_window, window, d, v)
    IN  /\ last_disparities' = window
        /\ next_disparity_index' =
               AdvanceIndex(next_disparity_index, time_smoothing_window)
        /\ disparity' = result.disparity
        /\ validity' = result.validity
        /\ colored_smoothed' =
               IF time_smoothing_window > 1
               THEN MaskedColoredSmoothed(v, result.validity)
               ELSE None
        /\ pushed' = Append(pushed, [d |-> d, v |-> v, pair |-> pair'])

----------------------------------------------------------------------------
(* BMTuner: settings history and report *)

\* self.bm_settings[param].pop(0) for every parameter: the oldest entry goes
PopOldest(settings) == [p \in ParamSet |-> Tail(settings[p])]

\* self.bm_settings[param].pop(-1) for every parameter
PopNewest(settings) ==
    [p \in ParamSet |-> SubSeq(settings[p], 1, Len(settings[p]) - 1)]

\* _save_bm_state: append the current value of every parameter
SaveBmState(settings, bm) == [p \in ParamSet |-> Append(settings[p], bm[p])]

\* the dictionary value_frequency after the loop over unique_values, which
\* list(set(...)) hands over in the order `order`: a later value replaces an
\* earlier one that occurs as often
ValueFrequency(settings_list, order) ==
    [c \in {Count(settings_list, order[i]) : i \in DOMAIN order} |->
        LET last == CHOOSE i \in DOMAIN order :
                        /\ Count(settings_list, order[i]) = c
                        /\ \A j \in DOMAIN order :
                               Count(settings_list, order[j]) = c => j <= i
        IN  order[last]]

\* frequencies.sort(reverse=True)
RECURSIVE SortReverse(_)
SortReverse(S) ==
    IF S = {} THEN <<>>
    ELSE LET m == CHOOSE x \in S : \A y \in S : y <= x
         IN  <<m>> \o SortReverse(S \ {m})

\* no report returned
NoReport == [parameter |-> "", rows |-> <<>>]

\* the report of report_settings: the header names the parameter, and every
\* row holds a value (left column) and its frequency (right column)
BuildReport(parameter, settings_list, order) ==
    LET value_frequency == ValueFrequency(settings_list, order)
        frequencies     == SortReverse(DOMAIN value_frequency)
    IN  [parameter |-> parameter,
         rows |-> [k \in 1..Len(frequencies) |->
                      [value     |-> value_frequency[frequencies[k]],
                       frequency |-> frequencies[k]]]]

----------------------------------------------------------------------------
(* BMTuner: construction and handlers *)

\* BMTuner(block_matcher, calibration, image_pair, time_smoothing_window=W)
TunerInit(W) ==
    /\ block_matcher = DefaultSettings
    /\ bm_settings = [p \in ParamSet |-> <<>>]
    /\ pair = "pair0"
    /\ time_smoothing_window = W
    /\ last_disparities = EmptyWindow(W)
    /\ next_disparity_index = 0
    /\ disparity = NoDisparity
    /\ validity = None
    /\ colored_smoothed = None
    /\ waiting = FALSE
    /\ report = NoReport
    /\ last_op = "init"
    /\ pushed = <<>>
    /\ tune_calls = 0

\* no tuner has been constructed
NoTuner ==
    /\ block_matcher = DefaultSettings
    /\ bm_settings = [p \in ParamSet |-> <<>>]
    /\ pair = ""
    /\ time_smoothing_window = 0
    /\ last_disparities = <<>>
    /\ next_disparity_index = 0
    /\ disparity = NoDisparity
    /\ validity = None
    /\ colored_smoothed = None
    /\ waiting = FALSE
    /\ report = NoReport
    /\ last_op = ""
    /\ pushed = <<>>
    /\ tune_calls = 0

\* _set_value without the return in the except clause: the map is updated
\* after a rejected write too
SetValueNoReturn(parameter, new_value, accepted, d) ==
    /\ Len(pushed) < MaxPush
    /\ UNCHANGED <<bm_settings, pair, time_smoothing_window, waiting, tune_calls>>
    /\ block_matcher' = SetAttr(block_matcher, parameter, new_value, accepted)
    /\ UpdateDisparityMapNoWait(block_matcher', d)
    /\ last_op' = IF accepted THEN "set_value" ELSE "bad_argument"
    /\ report' = NoReport
    /\ UNCHANGED <<calibVars, findVars>>

\* _set_value(parameter, new_value): the trackbar callback of a parameter
\* without constraint, and the tail of _set_value_from_trackbar
SetValue(parameter, new_value, accepted, d) ==
    /\ UNCHANGED <<bm_settings, pair, time_smoothing_window, waiting, tune_calls>>
    /\ block_matcher' = SetAttr(block_matcher, parameter, new_value, accepted)
    /\ IF accepted
       THEN /\ Len(pushed) < MaxPush
            /\ UpdateDisparityMapNoWait(block_matcher', d)
            /\ last_op' = "set_value"
       ELSE /\ last_op' = "bad_argument"
            /\ UNCHANGED <<last_disparities, next_disparity_index, disparity,
                           validity, colored_smoothed, pushed>>
    /\ report' = NoReport
    /\ UNCHANGED <<calibVars, findVars>>

\* a constrained trackbar that hands its position on as the value
SetValueFromTrackbarRaw(parameter, new_trackbar_value, accepted, d) ==
    SetValue(parameter, new_trackbar_value, accepted, d)

\* _set_value_from_trackbar(parameter, constraint, new_trackbar_value)
SetValueFromTrackbar(parameter, new_trackbar_value, accepted, d) ==
    SetValue(parameter, actual_value(new_trackbar_value), accepted, d)

\* tune_pair that takes the waiting branch whatever wait_key is
TunePairAlwaysWaits(new_pair, wait_key, d) ==
    /\ ~waiting
    /\ Len(bm_settings[parameter_names[1]]) < MaxHist
    /\ Len(pushed) < MaxPush
    /\ bm_settings' = SaveBmState(bm_settings, block_matcher)
    /\ pair' = new_pair
    /\ UpdateDisparityMapNoWait(block_matcher, d)
    /\ waiting' = TRUE
    /\ tune_calls' = tune_calls + 1
    /\ last_op' = "tune_pair"
    /\ report' = NoReport
    /\ UNCHANGED <<block_matcher, time_smoothing_window>>
    /\ UNCHANGED <<calibVars, findVars>>

\* tune_pair(pair, wait_key)
TunePair(new_pair, wait_key, d) ==
    /\ ~waiting
    /\ Len(bm_settings[parameter_names[1]]) < MaxHist
    /\ Len(pushed) < MaxPush
    /\ bm_settings' = SaveBmState(bm_settings, block_matcher)
    /\ pair' = new_pair
    /\ UpdateDisparityMapNoWait(block_matcher, d)
    /\ waiting' = wait_key
    /\ tune_calls' = tune_calls + 1
    /\ last_op' = "tune_pair"
    /\ report' = NoReport
    /\ UNCHANGED <<block_matcher, time_smoothing_window>>
    /\ UNCHANGED <<calibVars, findVars>>

\* cv2.waitKey() returns: a key was pressed
KeyPressed ==
    /\ waiting
    /\ waiting' = FALSE
    /\ last_op' = "key"
    /\ report' = NoReport
    /\ UNCHANGED <<block_matcher, bm_settings, pair, time_smoothing_window,
                   last_disparities, next_disparity_index, disparity, validity,
                   colored_smoothed, pushed, tune_calls>>
    /\ UNCHANGED <<calibVars, findVars>>

\* report_settings(parameter)
ReportSettings(parameter) ==
    /\ ~waiting
    /\ LET saved == SaveBmState(bm_settings, block_matcher)
       IN  IF parameter \in ParamSet
           THEN LET settings_list == Tail(saved[parameter])
                IN  /\ \E order \in Orders(Range(settings_list)) :
                           report' = BuildReport(parameter, settings_list, order)
                    /\ bm_settings' = PopNewest(saved)
                    /\ last_op' = "report_settings"
           ELSE \* self.bm_settings[parameter] raises KeyError
                /\ Len(bm_settings[parameter_names[1]]) < MaxHist
                /\ bm_settings' = saved
                /\ report' = NoReport
                /\ last_op' = "key_error"
    /\ UNCHANGED <<block_matcher, pair, time_smoothing_window, last_disparities,
                   next_disparity_index, disparity, validity, colored_smoothed,
                   waiting, pushed, tune_calls>>
    /\ UNCHANGED <<calibVars, findVars>>

----------------------------------------------------------------------------
(* calibrate_folder *)

\* the error values check_calibration can return
ErrorValues == {1, 2}

\* calibrate_folder(args) has been called with args.input_files = files
CalibInit(files) ==
    /\ input_files = files
    /\ given_files = files
    /\ cal_pc = "start"
    /\ progress = 0
    /\ attempted = <<>>
    /\ error_reports = <<>>
    /\ corners = <<>>
    /\ calibrate_calls = <<>>
    /\ check_results = <<>>
    /\ errors = <<>>
    /\ exported = <<>>
    /\ raised = ""

\* calibrate_folder has not been called
NoCalibration ==
    /\ input_files = <<>>
    /\ given_files = <<>>
    /\ cal_pc = ""
    /\ progress = 0
    /\ attempted = <<>>
    /\ error_reports = <<>>
    /\ corners = <<>>
    /\ calibrate_calls = <<>>
    /\ check_results = <<>>
    /\ errors = <<>>
    /\ exported = <<>>
    /\ raised = ""

\* up to the loop: the first file is read for the frame size, the calibrator
\* and the progress bar are built
ReadFrameSize ==
    /\ cal_pc = "start"
    /\ IF input_files = <<>>
       THEN \* args.input_files[0] raises IndexError
            /\ cal_pc' = "raised"
            /\ raised' = "IndexError"
       ELSE /\ cal_pc' = "loop"
            /\ raised' = raised
    /\ UNCHANGED <<input_files, given_files, progress, attempted, error_reports,
                   corners, calibrate_calls, check_results, errors, exported>>
    /\ UNCHANGED <<tunerVars, findVars>>

\* one pass of the loop with `pass` turned into `raise` in the except clause
ReadPairStopsOnError(found) ==
    /\ cal_pc = "loop"
    /\ input_files # <<>>
    /\ IF Len(input_files) < 2
       THEN /\ cal_pc' = "raised"
            /\ raised' = "ValueError"
            /\ UNCHANGED <<input_files, progress, attempted, error_reports, corners>>
       ELSE LET left  == input_files[1]
                right == input_files[2]
            IN  /\ attempted' = Append(attempted,
                                       [left |-> left, right |-> right, found |-> found])
                /\ IF found
                   THEN /\ corners' = Append(corners, <<left, right>>)
                        /\ input_files' = SubSeq(input_files, 3, Len(input_files))
                        /\ progress' = Len(given_files) - Len(input_files')
                        /\ UNCHANGED <<cal_pc, raised, error_reports>>
                   ELSE /\ error_reports' = Append(error_reports, <<left, right>>)
                        /\ cal_pc' = "raised"
                        /\ raised' = "ChessboardNotFoundError"
                        /\ UNCHANGED <<corners, input_files, progress>>
    /\ UNCHANGED <<given_files, calibrate_calls, check_results, errors, exported>>
    /\ UNCHANGED <<tunerVars, findVars>>

\* one pass of the loop with the list cut by [1:] instead of [2:]
ReadPairDropsOne(found) ==
    /\ cal_pc = "loop"
    /\ input_files # <<>>
    /\ IF Len(input_files) < 2
       THEN /\ cal_pc' = "raised"
            /\ raised' = "ValueError"
            /\ UNCHANGED <<input_files, progress, attempted, error_reports, corners>>
       ELSE LET left  == input_files[1]
                right == input_files[2]
            IN  /\ attempted' = Append(attempted,
                                       [left |-> left, right |-> right, found |-> found])
                /\ IF found
                   THEN /\ corners' = Append(corners, <<left, right>>)
                        /\ error_reports' = error_reports
                   ELSE /\ error_reports' = Append(error_reports, <<left, right>>)
                        /\ corners' = corners
                /\ input_files' = Tail(input_files)
                /\ progress' = Len(given_files) - Len(input_files')
                /\ UNCHANGED <<cal_pc, raised>>
    /\ UNCHANGED <<given_files, calibrate_calls, check_results, errors, exported>>
    /\ UNCHANGED <<tunerVars, findVars>>

\* one pass of the loop `while args.input_files`; found is FALSE when
\* add_corners raises ChessboardNotFoundError
ReadPair(found) ==
    /\ cal_pc = "loop"
    /\ input_files # <<>>
    /\ IF Len(input_files) < 2
       THEN \* left, right = args.input_files[:2] raises ValueError
            /\ cal_pc' = "raised"
            /\ raised' = "ValueError"
            /\ UNCHANGED <<input_files, progress, attempted, error_reports, corners>>
       ELSE LET left  == input_files[1]
                right == input_files[2]
            IN  /\ attempted' = Append(attempted,
                                       [left |-> left, right |-> right, found |-> found])
                /\ IF found
                   THEN /\ corners' = Append(corners, <<left, right>>)
                        /\ error_reports' = error_reports
                   ELSE /\ error_reports' = Append(error_reports, <<left, right>>)
                        /\ corners' = corners
                /\ input_files' = SubSeq(input_files, 3, Len(input_files))
                /\ progress' = Len(given_files) - Len(input_files')
                /\ UNCHANGED <<cal_pc, raised>>
    /\ UNCHANGED <<given_files, calibrate_calls, check_results, errors, exported>>
    /\ UNCHANGED <<tunerVars, findVars>>

\* the loop is left; calibration = calibrator.calibrate_cameras(), which
\* raises when succeeded is FALSE
CalibrateCameras(succeeded) ==
    /\ cal_pc = "loop"
    /\ input_files = <<>>
    /\ calibrate_calls' = Append(calibrate_calls, corners)
    /\ IF succeeded
       THEN /\ cal_pc' = "calibrated"
            /\ raised' = raised
       ELSE /\ cal_pc' = "raised"
            /\ raised' = "calibrate_cameras"
    /\ UNCHANGED <<input_files, given_files, progress, attempted, error_reports,
                   corners, check_results, errors, exported>>
    /\ UNCHANGED <<tunerVars, findVars>>

\* check_calibration inside a try block that swallows the failure and goes
\* on with the errors unset
CheckCalibrationSwallowsFailure(succeeded, avg, ocv) ==
    /\ cal_pc = "calibrated"
    /\ IF succeeded
       THEN /\ check_results' = Append(check_results, <<avg, ocv>>)
            /\ errors' = <<avg, ocv>>
       ELSE /\ check_results' = Append(check_results, <<>>)
            /\ errors' = <<0, 0>>
    /\ cal_pc' = "checked"
    /\ raised' = raised
    /\ UNCHANGED <<input_files, given_files, progress, attempted, error_reports,
                   corners, calibrate_calls, exported>>
    /\ UNCHANGED <<tunerVars, findVars>>

\* avg_error, ocv_error = calibrator.check_calibration(calibration), which
\* raises when succeeded is FALSE
CheckCalibration(succeeded, avg, ocv) ==
    /\ cal_pc = "calibrated"
    /\ IF succeeded
       THEN /\ check_results' = Append(check_results, <<avg, ocv>>)
            /\ errors' = <<avg, ocv>>
            /\ cal_pc' = "checked"
            /\ raised' = raised
       ELSE /\ check_results' = Append(check_results, <<>>)
            /\ errors' = errors
            /\ cal_pc' = "raised"
            /\ raised' = "check_calibration"
    /\ UNCHANGED <<input_files, given_files, progress, attempted, error_reports,
                   corners, calibrate_calls, exported>>
    /\ UNCHANGED <<tunerVars, findVars>>

\* calibration.export(args.output_folder, avg_error, ocv_error)
Export ==
    /\ cal_pc = "checked"
    /\ exported' = Append(exported, [avg_error |-> errors[1], ocv_error |-> errors[2]])
    /\ cal_pc' = "done"
    /\ UNCHANGED <<input_files, given_files, progress, attempted, error_reports,
                   corners, calibrate_calls, check_results, errors, raised>>
    /\ UNCHANGED <<tunerVars, findVars>>

----------------------------------------------------------------------------
(* find_files.  A name is a tuple of characters. *)

\* the characters of the names, in the order of their code points
Alphabet == <<"/", "0", "1", "d", "e", "f", "g", "h", "i", "l", "r", "t">>

Ord(c) == CHOOSE i \in DOMAIN Alphabet : Alphabet[i] = c

\* a < b as Python compares strings
RECURSIVE StrLess(_, _)
StrLess(a, b) ==
    IF b = <<>> THEN FALSE
    ELSE IF a = <<>> THEN TRUE
    ELSE IF Head(a) # Head(b) THEN Ord(Head(a)) < Ord(Head(b))
    ELSE StrLess(Tail(a), Tail(b))

\* name.startswith(prefix)
StartsWith(name, prefix) ==
    /\ Len(name) >= Len(prefix)
    /\ SubSeq(name, 1, Len(prefix)) = prefix

\* name[k:]
From(name, k) == SubSeq(name, k + 1, Len(name))

\* files.sort(), on a list without duplicates
RECURSIVE Sorted(_)
Sorted(S) ==
    IF S = {} THEN <<>>
    ELSE LET least == CHOOSE x \in S : \A y \in S \ {x} : StrLess(x, y)
         IN  <<least>> \o Sorted(S \ {least})

\* files.insert(index, item), index counted from 0 and within the list
Insert(files, index, item) ==
    SubSeq(files, 1, index) \o <<item>> \o SubSeq(files, index + 1, Len(files))

\* os.path.join(folder, filename), filename holding no "/"
Join(dir, filename) ==
    IF dir = <<>> \/ dir[Len(dir)] = "/" THEN dir \o filename
    ELSE dir \o <<"/">> \o filename

left_prefix == <<"l", "e", "f", "t">>

right_prefix == <<"r", "i", "g", "h", "t">>

\* the loop with files[i] in the place of files[i * 2]
RECURSIVE InsertRightsOfSingleIndex(_, _, _)
InsertRightsOfSingleIndex(files, i, n) ==
    IF i >= n THEN files
    ELSE InsertRightsOfSingleIndex(
             Insert(files, i * 2 + 1, right_prefix \o From(files[i + 1], 4)),
             i + 1, n)

\* the loop `for i in range(len(files))`, from pass i on; n is len(files)
\* when the loop was entered
RECURSIVE InsertRights(_, _, _)
InsertRights(files, i, n) ==
    IF i >= n THEN files
    ELSE InsertRights(
             Insert(files, i * 2 + 1, right_prefix \o From(files[i * 2 + 1], 4)),
             i + 1, n)

\* find_files(folder), names being os.listdir(folder)
find_files(dir, names) ==
    LET files  == Sorted({name \in names : StartsWith(name, left_prefix)})
        paired == InsertRights(files, 0, Len(files))
    IN  [k \in 1..Len(paired) |-> Join(dir, paired[k])]

\* find_files has not been called
NoFindFiles ==
    /\ folder = <<>>
    /\ listing = {}
    /\ found_files = <<>>
    /\ find_pc = ""

\* the call find_files(folder)
FindFiles ==
    /\ find_pc = "called"
    /\ found_files' = find_files(folder, listing)
    /\ find_pc' = "returned"
    /\ UNCHANGED <<folder, listing>>
    /\ UNCHANGED <<tunerVars, calibVars>>

----------------------------------------------------------------------------
(* A tuning session on a still scene, the operator moving the trackbars *)

\* the positions of a parameter's trackbar, from 0 to the maximum that
\* _initialize_trackbars gives it
TrackbarValues(parameter) == 0..TrackbarMax(parameter)

\* image pairs handed to tune_pair
Pairs == {"pair1"}

\* names report_settings is asked about
ReportNames == ParamSet \cup {"unknown"}

Init == (\E W \in {1, 2} : TunerInit(W)) /\ NoCalibration /\ NoFindFiles

Next ==
    \/ \E p \in Pairs, wait_key \in BOOLEAN, d \in StillMaps : TunePair(p, wait_key, d)
    \/ \E parameter \in ParamSet \ parameter_constraints :
       \E v \in TrackbarValues(parameter), accepted \in BOOLEAN, d \in StillMaps :
            SetValue(parameter, v, accepted, d)
    \/ \E parameter \in parameter_constraints :
       \E v \in TrackbarValues(parameter), accepted \in BOOLEAN, d \in StillMaps :
            SetValueFromTrackbar(parameter, v, accepted, d)
    \/ KeyPressed
    \/ \E parameter \in ReportNames : ReportSettings(parameter)

Spec == Init /\ [][Next]_vars

----------------------------------------------------------------------------
(* A tuning session on a changing scene, the trackbars left where they are *)

InitSmooth == (\E W \in {1, 2, 3} : TunerInit(W)) /\ NoCalibration /\ NoFindFiles

NextSmooth ==
    \/ \E p \in Pairs, wait_key \in BOOLEAN, d \in SceneMaps : TunePair(p, wait_key, d)
    \/ \E parameter \in ParamSet \ parameter_constraints, accepted \in BOOLEAN,
          d \in SceneMaps :
            SetValue(parameter, 0, accepted, d)
    \/ \E parameter \in parameter_constraints, accepted \in BOOLEAN,
          d \in SceneMaps :
            SetValueFromTrackbar(parameter, 0, accepted, d)
    \/ KeyPressed
    \/ \E parameter \in ReportNames : ReportSettings(parameter)

SpecSmooth == InitSmooth /\ [][NextSmooth]_vars

----------------------------------------------------------------------------
(* A run of calibrate_folder on a list of up to MaxFiles files *)

\* the list of the first n files of a folder; file k is named k
FileList(n) == [k \in 1..n |-> k]

InitCalib == (\E n \in 0..MaxFiles : CalibInit(FileList(n))) /\ NoTuner /\ NoFindFiles

NextCalib ==
    \/ ReadFrameSize
    \/ \E found \in BOOLEAN : ReadPair(found)
    \/ \E succeeded \in BOOLEAN : CalibrateCameras(succeeded)
    \/ \E succeeded \in BOOLEAN, avg \in ErrorValues, ocv \in ErrorValues :
          CheckCalibration(succeeded, avg, ocv)
    \/ Export

SpecCalib == InitCalib /\ [][NextCalib]_vars

\* the same run, which goes on as long as it has a statement to execute
SpecCalibFair == InitCalib /\ [][NextCalib]_vars /\ WF_vars(NextCalib)

----------------------------------------------------------------------------
(* A call of find_files on a folder of stereo images and other files *)

\* what follows "left" or "right" in the names of the images
Suffixes == {<<>>, <<"0">>, <<"1">>, <<"1", "0">>}

\* the names a folder can hold
Names ==
    {left_prefix \o x : x \in Suffixes} \cup {right_prefix \o x : x \in Suffixes}
        \cup {<<"l", "e", "f">>}

\* the folder names find_files is called with
Folders == {<<>>, <<"d">>, <<"d", "/">>}

InitFind ==
    /\ folder \in Folders
    /\ listing \in SUBSET Names
    /\ found_files = <<>>
    /\ find_pc = "called"
    /\ NoTuner
    /\ NoCalibration

NextFind == FindFiles

SpecFind == InitFind /\ [][NextFind]_vars

----------------------------------------------------------------------------
(* Properties of the settings history *)

\* the frequency column of a report, summed
FrequencySum(r) == SumSeq([k \in 1..Len(r.rows) |-> r.rows[k].frequency])

\* no value occurs twice in the list
Distinct(s) == \A i, j \in DOMAIN s : s[i] = s[j] => i = j

\* C1: a report_settings call for a known parameter leaves the history of
\* every parameter element for element as it was before the call.
ReportLeavesHistory ==
    [][last_op' = "report_settings" => bm_settings' = bm_settings]_vars

\* C1, witness: a report was returned while two different values of the
\* reported parameter were on record.
ReportLeavesHistoryWitness ==
    /\ last_op = "report_settings"
    /\ report.parameter = "numDisparities"
    /\ Len(bm_settings["numDisparities"]) = 2
    /\ bm_settings["numDisparities"][1] # bm_settings["numDisparities"][2]

\* C2: after k >= 1 tune_pair calls, each made under a different value of the
\* parameter, the frequency column of the parameter's report sums to k - 1.
FrequenciesSumToCallsLessOne ==
    (/\ last_op = "report_settings"
     /\ tune_calls >= 1
     /\ Len(bm_settings[report.parameter]) = tune_calls
     /\ Distinct(bm_settings[report.parameter]))
        => FrequencySum(report) = tune_calls - 1

\* C3: the first entry of a non-empty history is the value the block matcher
\* held for the parameter when the tuner was constructed.
FirstEntryIsDefault ==
    \A p \in ParamSet :
        bm_settings[p] # <<>> => bm_settings[p][1] = DefaultSettings[p]

\* C4: a parameter write the block matcher rejects leaves its parameter
\* values, the window and its cursor, the history and the stored disparity
\* and validity as they were, recomputes no disparity, and leaves the tuner
\* able to handle the next event.
RejectedWriteChangesNothing ==
    /\ [][last_op' = "bad_argument" =>
            UNCHANGED <<block_matcher, last_disparities, next_disparity_index,
                        bm_settings, disparity, validity, colored_smoothed,
                        pushed, pair, waiting, tune_calls>>]_vars
    /\ [](last_op = "bad_argument" =>
            ENABLED (\E parameter \in ParamSet, accepted \in BOOLEAN, d \in StillMaps :
                        SetValue(parameter, 0, accepted, d)))

\* C4, witness: a write was rejected in a session that has a history, a
\* populated window and a parameter away from its default.
RejectedWriteWitness ==
    /\ last_op = "bad_argument"
    /\ Len(pushed) >= 2
    /\ bm_settings["minDisparity"] # <<>>
    /\ block_matcher["numDisparities"] # DefaultSettings["numDisparities"]

----------------------------------------------------------------------------
(* Properties of the smoothing *)

\* the values pixel px takes in the maps of the list obs
PixelValues(obs, px) == [k \in 1..Len(obs) |-> obs[k].d[px]]

\* the standard deviation of the values is below limit: the squared
\* distances to the mean sum(x)/n sum to less than n * limit^2
DeviatesLessThan(values, limit) ==
    LET n == Len(values)
        s == SumSeq(values)
    IN  SumSeq([k \in 1..n |-> (n * values[k] - s) * (n * values[k] - s)])
            < limit * limit * n * n * n

\* C7: with W > 1 and n < W updates so far, the smoothed disparity is the
\* mean of exactly the n maps pushed and the deviation test is made over
\* exactly those n maps.
PartialWindowStatistics ==
    (/\ time_smoothing_window > 1
     /\ Len(pushed) >= 1
     /\ Len(pushed) < time_smoothing_window)
        => /\ disparity.den = Len(pushed)
           /\ \A px \in Pixels :
                 /\ disparity.num[px] = SumSeq(PixelValues(pushed, px))
                 /\ validity[px] =
                       (/\ \A k \in 1..Len(pushed) : pushed[k].v[px]
                        /\ DeviatesLessThan(PixelValues(pushed, px), accepted_deviation))

\* C7, witness: a window of three holds two different maps.
PartialWindowWitness ==
    /\ time_smoothing_window = 3
    /\ Len(pushed) = 2
    /\ pushed[1].d # pushed[2].d
    /\ disparity.den = 2

\* the three maps a full window of three holds are valid everywhere and
\* differ at pixel px only
ThreeMapsDifferAt(px) ==
    /\ time_smoothing_window = 3
    /\ \A i \in 0..2 :
          /\ last_disparities[i].d # None
          /\ \A q \in Pixels : last_disparities[i].v[q]
    /\ \A i, j \in 0..2 : \A q \in Pixels \ {px} :
          last_disparities[i].d[q] = last_disparities[j].d[q]
    /\ \E i, j \in 0..2 : last_disparities[i].d[px] # last_disparities[j].d[px]

\* the values of pixel px in the three slots
SlotValues(px) == [k \in 1..3 |-> last_disparities[k - 1].d[px]]

\* C8 as stated: when the three maps differ at one pixel only and two of its
\* values are more than accepted_deviation apart, the smoothed validity is
\* false at that pixel and true at every other.
VaryingPixelInvalid ==
    \A px \in Pixels :
        (/\ ThreeMapsDifferAt(px)
         /\ \E i, j \in 1..3 :
               SlotValues(px)[i] - SlotValues(px)[j] > accepted_deviation)
            => /\ validity[px] = FALSE
               /\ \A q \in Pixels \ {px} : validity[q] = TRUE

\* C8 as amended: when the three maps differ at one pixel only and the
\* standard deviation of its three values is at least accepted_deviation, the
\* smoothed validity is false at that pixel and true at every other.
DeviatingPixelInvalid ==
    \A px \in Pixels :
        (/\ ThreeMapsDifferAt(px)
         /\ ~DeviatesLessThan(SlotValues(px), accepted_deviation))
            => /\ validity[px] = FALSE
               /\ \A q \in Pixels \ {px} : validity[q] = TRUE

\* C8, witness: the three maps differ at pixel 1 only, by values 0 and 30.
DeviatingPixelWitness ==
    /\ ThreeMapsDifferAt(1)
    /\ {0, 30} \subseteq Range(SlotValues(1))
    /\ validity = <<FALSE, TRUE>>

\* C9: with W = 1 the stored disparity and validity are the raw map of the
\* latest update and its raw validity mask.
SingleSlotResultIsRaw ==
    (time_smoothing_window = 1 /\ pushed # <<>>) =>
        LET latest == pushed[Len(pushed)]
        IN  /\ disparity = [num |-> latest.d, den |-> 1]
            /\ validity = latest.v
            /\ \A px \in Pixels :
                  validity[px] = (latest.d[px] >= block_matcher["minDisparity"])

\* C9, witness: with W = 1, a second update brought another map, one with an
\* unmatched pixel.
SingleSlotWitness ==
    /\ time_smoothing_window = 1
    /\ Len(pushed) >= 2
    /\ pushed[Len(pushed)].d # pushed[Len(pushed) - 1].d
    /\ validity = <<TRUE, FALSE>>

----------------------------------------------------------------------------
(* Properties of calibrate_folder *)

\* the consecutive (left, right) pairs of a list of files
PairsOf(files) == [k \in 1..(Len(files) \div 2) |-> <<files[2 * k - 1], files[2 * k]>>]

\* the pairs of the add_corners calls in calls whose outcome was found
RECURSIVE PairsWithOutcome(_, _)
PairsWithOutcome(calls, found) ==
    IF calls = <<>> THEN <<>>
    ELSE (IF Head(calls).found = found
          THEN <<<<Head(calls).left, Head(calls).right>>>> ELSE <<>>)
         \o PairsWithOutcome(Tail(calls), found)

\* add_corners was tried once on each pair consumed so far, in input order;
\* each failure gave one error report and no observation; calibrate_cameras
\* is called once, after the last pair, on the observations of the pairs that
\* did not fail, and the run does not end without that call
PairsAttemptedThenCalibrated ==
    /\ [k \in 1..Len(attempted) |-> <<attempted[k].left, attempted[k].right>>]
           = SubSeq(PairsOf(given_files), 1,
                    (Len(given_files) - Len(input_files)) \div 2)
    /\ error_reports = PairsWithOutcome(attempted, FALSE)
    /\ corners = PairsWithOutcome(attempted, TRUE)
    /\ Len(calibrate_calls) <= 1
    /\ calibrate_calls # <<>> =>
          /\ Len(attempted) = Len(given_files) \div 2
          /\ calibrate_calls[1] = PairsWithOutcome(attempted, TRUE)
    /\ cal_pc \in {"calibrated", "checked", "done", "raised"} =>
          Len(calibrate_calls) = 1

\* C5 as stated: for every even-length list of input files, every pair is
\* attempted once in input order, a chessboard-not-found failure gives one
\* error report and does not stop the loop, and calibrate_cameras is called
\* exactly once, after the last pair, with the non-failing pairs only.
EvenListAttemptedThenCalibrated ==
    Len(given_files) % 2 = 0 => PairsAttemptedThenCalibrated

\* C5 as amended: the same for every non-empty even-length list.
FilledEvenListAttemptedThenCalibrated ==
    (Len(given_files) % 2 = 0 /\ given_files # <<>>) => PairsAttemptedThenCalibrated

\* C5, witness: of four pairs the second alone failed, and calibrate_cameras
\* was called with the other three.
SecondPairFailedWitness ==
    /\ Len(given_files) = 8
    /\ error_reports = <<<<3, 4>>>>
    /\ calibrate_calls = <<<<<<1, 2>>, <<5, 6>>, <<7, 8>>>>>>

\* C6: a failure of calibrate_cameras or check_calibration leaves
\* calibrate_folder as an exception, without a second try and without an
\* export; export is called at most once, after both have succeeded, with the
\* two errors check_calibration returned.
FailureStopsBeforeExport ==
    /\ Len(calibrate_calls) <= 1
    /\ Len(check_results) <= 1
    /\ Len(exported) <= 1
    /\ raised \in {"calibrate_cameras", "check_calibration"} =>
          cal_pc = "raised" /\ exported = <<>>
    /\ (check_results # <<>> /\ check_results[1] = <<>>) =>
          raised = "check_calibration"
    /\ exported # <<>> =>
          /\ raised = ""
          /\ Len(calibrate_calls) = 1
          /\ Len(check_results) = 1
          /\ check_results[1] # <<>>
          /\ exported[1] = [avg_error |-> check_results[1][1],
                            ocv_error |-> check_results[1][2]]

\* C6, witness: check_calibration failed after a calibration on observations.
CheckFailedWitness ==
    /\ raised = "check_calibration"
    /\ cal_pc = "raised"
    /\ calibrate_calls # <<>>
    /\ calibrate_calls[1] # <<>>

----------------------------------------------------------------------------
(* Properties of find_files *)

\* the names of the folder that start with "left"
LeftNames ==
    {name \in listing : Len(name) >= 4 /\ SubSeq(name, 1, 4) = <<"l", "e", "f", "t">>}

\* the number of left names that sort before name
Rank(name) == Cardinality({other \in LeftNames : StrLess(other, name)})

\* C10: the list returned has two entries per name starting with "left"; the
\* name that is i-th in sorted order (from 0) is at index 2i and "right" with
\* the rest of that name after its first four characters is at index 2i + 1,
\* both as paths in the folder.
LeftsFollowedByRights ==
    find_pc = "returned" =>
        /\ Len(found_files) = 2 * Cardinality(LeftNames)
        /\ \A name \in LeftNames :
              /\ found_files[2 * Rank(name) + 1] = Join(folder, name)
              /\ found_files[2 * Rank(name) + 2] =
                     Join(folder, <<"r", "i", "g", "h", "t">> \o SubSeq(name, 5, Len(name)))

\* C10, witness: a folder with three left images, not all of them with a right
\* image, and another file.
LeftsFollowedByRightsWitness ==
    /\ find_pc = "returned"
    /\ folder = <<"d">>
    /\ Cardinality(LeftNames) = 3
    /\ <<"l", "e", "f">> \in listing
    /\ Len(found_files) = 6

----------------------------------------------------------------------------
(* Properties of the tuner's handlers *)

\* C11: tune_pair with wait_key false returns without waiting for a key;
\* with wait_key true it is waiting when its display is done, it stays
\* waiting until a key event arrives, a key event can always arrive and ends
\* the wait; a parameter-change handler, accepted or rejected, changes
\* nothing about who is waiting.
WaitsOnlyInTunePairWithWaitKey ==
    /\ [][\A p \in Pairs, d \in StillMaps :
              /\ TunePair(p, FALSE, d) => ~waiting'
              /\ TunePair(p, TRUE, d) => waiting']_vars
    /\ [][(waiting /\ ~waiting') => last_op' = "key"]_vars
    /\ [][(waiting /\ last_op' = "key") => ~waiting']_vars
    /\ [](waiting => ENABLED KeyPressed)
    /\ [][last_op' \in {"set_value", "bad_argument"} => waiting' = waiting]_vars

\* C11, witness: a parameter-change handler has run and returned while
\* tune_pair is still waiting for its key.
WaitsOnlyInTunePairWithWaitKeyWitness ==
    /\ waiting
    /\ last_op = "set_value"
    /\ pushed[Len(pushed)].pair = "pair1"

----------------------------------------------------------------------------
(* Properties of the window of recent observations *)

\* the (disparity, validity) observation of the k-th update
Observation(k) == [d |-> pushed[k].d, v |-> pushed[k].v]

\* the number of observations the window holds after n updates
HeldCount == IF Len(pushed) < time_smoothing_window THEN Len(pushed)
             ELSE time_smoothing_window

\* C12: after n updates on a window of W slots the cursor is n mod W, within
\* 0..W-1; exactly min(n, W) slots are populated; they hold the min(n, W)
\* most recent observations, the k-th update in slot (k - 1) mod W; and once
\* the window is full the slot under the cursor, the one the next update
\* overwrites, holds the oldest of them.
WindowHoldsMostRecent ==
    LET W == time_smoothing_window
        n == Len(pushed)
    IN  /\ next_disparity_index = n % W
        /\ next_disparity_index \in 0..(W - 1)
        /\ Cardinality({i \in 0..(W - 1) : last_disparities[i].d # None}) = HeldCount
        /\ \A k \in (n - HeldCount + 1)..n :
               last_disparities[(k - 1) % W] = Observation(k)
        /\ n >= W => last_disparities[next_disparity_index] = Observation(n - W + 1)

\* C12, witness: a window of two slots has taken three different maps, so the
\* first has been overwritten.
WindowHoldsMostRecentWitness ==
    /\ time_smoothing_window = 2
    /\ Len(pushed) = 3
    /\ \A i, j \in 1..3 : pushed[i].d = pushed[j].d => i = j
    /\ next_disparity_index = 1

----------------------------------------------------------------------------
(* Properties of the settings history and of its report, continued *)

\* C13: every tune_pair call appends to every parameter's history the value
\* the block matcher holds at the call, parameter-change events append
\* nothing, and so between operations every history is as long as the number
\* of tune_pair calls made so far.
HistoryLengthIsTuneCalls ==
    \A p \in ParamSet : Len(bm_settings[p]) = tune_calls

\* the values report_settings counts for a parameter: the recorded values but
\* the first, and the current value it appends for the time of the call
CountedValues(parameter) ==
    Tail(Append(bm_settings[parameter], block_matcher[parameter]))

\* C14: the report has exactly one row for every distinct counted value, the
\* row shows how often the value occurs, and the rows are ordered by
\* frequency, highest first, whether or not two values occur equally often.
ReportHasOneRowPerValue ==
    last_op = "report_settings" =>
        LET counted == CountedValues(report.parameter)
            rows    == report.rows
        IN  /\ {rows[k].value : k \in DOMAIN rows} = Range(counted)
            /\ Len(rows) = Cardinality(Range(counted))
            /\ \A k \in DOMAIN rows :
                   rows[k].frequency = Count(counted, rows[k].value)
            /\ \A j, k \in DOMAIN rows :
                   j < k => rows[j].frequency >= rows[k].frequency

\* C18: a report_settings call that fails on an unknown parameter name leaves
\* the history of every parameter as it was before the call.
FailedReportLeavesHistory ==
    [][last_op' = "key_error" => bm_settings' = bm_settings]_vars

----------------------------------------------------------------------------
(* Properties of the smoothed validity and of its display *)

\* the updates whose observations the window holds, oldest first
HeldUpdates == SubSeq(pushed, Len(pushed) - HeldCount + 1, Len(pushed))

\* C15: with W > 1 the smoothed validity is true at a pixel only if the raw
\* validity is true there in every observation held and the standard
\* deviation of the pixel's held values is strictly below
\* accepted_deviation; a pixel without a match (disparity not above
\* minDisparity - 1) in any held observation is invalid.
SmoothedValidOnlyIfAllValid ==
    (time_smoothing_window > 1 /\ pushed # <<>>) =>
        \A px \in Pixels :
            /\ validity[px] =>
                   /\ \A k \in DOMAIN HeldUpdates : HeldUpdates[k].v[px]
                   /\ DeviatesLessThan(PixelValues(HeldUpdates, px), accepted_deviation)
            /\ (\E k \in DOMAIN HeldUpdates :
                    HeldUpdates[k].d[px] <= block_matcher["minDisparity"] - 1)
                   => ~validity[px]

\* C15, witness: the oldest of three held observations has no match at
\* pixel 2, the two after it have the same matched value there, and the
\* pixel is invalid; pixel 1 is valid.
SmoothedValidOnlyIfAllValidWitness ==
    /\ time_smoothing_window = 3
    /\ Len(pushed) = 3
    /\ pushed[1].d[2] = -1
    /\ pushed[2].d[2] = 12 /\ pushed[3].d[2] = 12
    /\ validity = <<TRUE, FALSE>>

\* C16: with W > 1 the smoothed image is masked with the smoothed validity:
\* a pixel of it is background exactly when the smoothed validity is false
\* at that pixel.
SmoothedImageMaskedBySmoothedValidity ==
    (time_smoothing_window > 1 /\ pushed # <<>>) =>
        \A px \in Pixels : colored_smoothed[px] = validity[px]

----------------------------------------------------------------------------
(* Properties of the parameter-change handlers *)

\* C17: an accepted parameter-change event with trackbar position r sets its
\* parameter to actual_value(r) when the parameter has a constraint and to r
\* when it has none, changes no other parameter, and recomputes the
\* disparity exactly once, on the pair that is active, which stays active.
AcceptedChangeSetsOneParameter ==
    [][last_op' = "set_value" =>
          /\ \E parameter \in ParamSet : \E r \in TrackbarValues(parameter) :
                 block_matcher' =
                     [block_matcher EXCEPT ![parameter] =
                         IF parameter \in parameter_constraints
                         THEN actual_value(r) ELSE r]
          /\ Len(pushed') = Len(pushed) + 1
          /\ pushed'[Len(pushed')].pair = pair
          /\ pair' = pair]_vars

\* C17, witness: after a tune_pair call both trackbars were moved and
\* accepted, the constrained one to its last position.
AcceptedChangeSetsOneParameterWitness ==
    /\ last_op = "set_value"
    /\ pair = "pair1"
    /\ block_matcher = [p \in ParamSet |-> IF p = "minDisparity" THEN 1 ELSE 48]

----------------------------------------------------------------------------
(* Properties of the loop of calibrate_folder *)

\* the loop has a statement to execute
LoopCanStep ==
    ENABLED ((\E found \in BOOLEAN : ReadPair(found))
                \/ (\E succeeded \in BOOLEAN : CalibrateCameras(succeeded)))

\* after every pass the list is what is left of the given list when the
\* first two files are removed once for each pass made
TwoFilesRemovedPerPass ==
    input_files = SubSeq(given_files, 2 * Len(attempted) + 1, Len(given_files))

\* a list of 2m files is used up by m passes before calibrate_cameras is called
CalibratedAfterHalfAsManyPasses ==
    calibrate_calls # <<>> =>
        /\ input_files = <<>>
        /\ 2 * Len(attempted) = Len(given_files)

\* C19 as stated: on a non-empty list every pass of the loop removes exactly
\* the first two files, the loop never stands still, 2m files are used up in
\* exactly m passes and calibrate_cameras is reached with the list empty; a
\* list of odd length ends in calibrate_cameras or in a failure raised
\* before any pair was processed.
LoopEndsInCalibrateOrEarlyFailure ==
    given_files # <<>> =>
        /\ TwoFilesRemovedPerPass
        /\ CalibratedAfterHalfAsManyPasses
        /\ cal_pc = "loop" => LoopCanStep
        /\ Len(given_files) % 2 = 0 => raised \notin {"IndexError", "ValueError"}
        /\ (Len(given_files) % 2 = 1 /\ cal_pc \in {"raised", "done"}) =>
               calibrate_calls # <<>> \/ attempted = <<>>

\* C19 as amended: as above for the lists of even length, which also leave
\* the loop for calibrate_cameras; a list of 2m + 1 files never reaches
\* calibrate_cameras: its loop ends in the ValueError of unpacking the one
\* file left, raised after the first m pairs were processed.
LoopEndsInCalibrateOrUnpackFailure ==
    /\ [](given_files # <<>> =>
            /\ TwoFilesRemovedPerPass
            /\ CalibratedAfterHalfAsManyPasses
            /\ cal_pc = "loop" => LoopCanStep
            /\ Len(given_files) % 2 = 0 => raised \notin {"IndexError", "ValueError"}
            /\ Len(given_files) % 2 = 1 =>
                   /\ calibrate_calls = <<>>
                   /\ raised \in {"", "ValueError"}
                   /\ raised = "ValueError" =>
                          /\ Len(input_files) = 1
                          /\ 2 * Len(attempted) + 1 = Len(given_files))
    /\ [][(cal_pc = "loop" /\ cal_pc' = "loop") =>
              Len(input_files') = Len(input_files) - 2]_vars
    /\ (given_files # <<>> /\ Len(given_files) % 2 = 0) => <>(calibrate_calls # <<>>)
    /\ Len(given_files) % 2 = 1 => <>(raised = "ValueError")

\* C19, witness: a list of five files ended in the ValueError after its two
\* pairs were processed.
LoopEndsInUnpackFailureWitness ==
    /\ Len(given_files) = 5
    /\ raised = "ValueError"
    /\ Len(attempted) = 2
    /\ input_files = <<5>>

====
